---- MODULE Spec2Model ----
(***************************************************************************)
(* Model of src/bot.py: a Telegram bot that turns an uploaded document     *)
(* into a quiz.  The state is the global usage map user_stats, the         *)
(* per-user dictionary context.user_data that python-telegram-bot hands    *)
(* to every handler, and the wall clock read by datetime.now().  Each      *)
(* handler registered in main() is one action; a handler runs to its end   *)
(* or to the first exception it does not catch, and what it wrote before   *)
(* the exception stays written.                                            *)
(*                                                                         *)
(* Abstractions: a document text is represented by its page count (the     *)
(* only thing handle_document derives from it), a question by its          *)
(* correct_idx (the only field show_results reads), and a handler reads    *)
(* the clock once (its datetime.now() calls are microseconds apart).       *)
(***************************************************************************)
EXTENDS Integers, Sequences, FiniteSets, TLC

\* ---- program constants (src/bot.py:31-35) ----
MAX_QUESTIONS_PER_FILE == 50
MIN_QUESTIONS == 5
QUESTIONS_PER_BATCH == 5
MAX_FILES_PER_HOUR == 2
MAX_FILES_PER_DAY == 5

\* ---- bounds of the model ----
\* clock ticks in one hour (the time resolution of the model)
Hour == 2
\* timedelta(hours=24) in ticks
Day == 24 * Hour
\* how many times the clock is advanced in one behaviour
MaxTicks == 4
\* largest page count of an uploaded document
MaxPages == 3
\* most poll answers held in user_answers
MaxAnswers == 2
\* a stale "more" click is no longer delivered once the cursor passed this
MaxIndex == 5

Users == {1}
\* the slots random.randint(0, 3) may draw, and the options a user may pick
Slots == {0, 3}
\* file names as sent, by their extension
Extensions == {"pdf", "PPTX", "docx"}
\* what the extractor returns for an admitted file: it raises, returns an
\* empty string, or returns a text with that many pages
Extractions ==
    {[kind |-> "raises", pages |-> 0], [kind |-> "empty", pages |-> 0]}
        \cup {[kind |-> "text", pages |-> p] : p \in 1..MaxPages}

Max(a, b) == IF a >= b THEN a ELSE b
Min(a, b) == IF a <= b THEN a ELSE b

\* ---- Python dict ----
EmptyDict == [k \in {} |-> 0]
Has(d, k) == k \in DOMAIN d
Put(d, k, v) == [x \in (DOMAIN d) \cup {k} |-> IF x = k THEN v ELSE d[x]]
Get(d, k, default) == IF k \in DOMAIN d THEN d[k] ELSE default

VARIABLES
    now,          \* datetime.now(), in ticks
    ticks,        \* how often the clock was advanced
    user_stats,   \* the global usage map: user id -> record
    user_data,    \* context.user_data of each user
    out,          \* what the last step did: replies, polls sent, fault
    emitted,      \* per user: indices of the polls sent since the question
                  \* list was last replaced
    accepted,     \* per user: times of the last accepted uploads
    sinceAnchor,  \* per user: uploads accepted since last_daily_reset was set
    finalized     \* per user: show_results completed and no upload since

vars == <<now, ticks, user_stats, user_data, out, emitted, accepted,
          sinceAnchor, finalized>>

\* ---- the outcome of a handler ----
NoText == [numeric |-> FALSE, value |-> 0]
NoOut == [h |-> "none", u |-> 0, ext |-> "", extraction |-> "none",
          text |-> NoText,
          reply |-> "none", fault |-> "none", generating |-> FALSE,
          batch |-> <<>>, more |-> FALSE, cursor |-> <<>>, qlen |-> 0,
          total |-> <<>>, report |-> <<>>]

\* ---- usage tracker ----
\* reset_user_stats without the test "user_id not in user_stats"
reset_user_stats_always_new(stats, u, t) ==
    Put(stats, u, [file_count |-> 0, last_upload |-> <<>>,
                   daily_count |-> 0, last_daily_reset |-> t])

\* reset_user_stats with the daily reset at >= 24 hours instead of >
reset_user_stats_at_24h(stats, u, t) ==
    LET s1 == IF u \in DOMAIN stats THEN stats
              ELSE Put(stats, u, [file_count |-> 0, last_upload |-> <<>>,
                                  daily_count |-> 0, last_daily_reset |-> t])
    IN IF t - s1[u].last_daily_reset >= Day
       THEN [s1 EXCEPT ![u].daily_count = 0, ![u].last_daily_reset = t]
       ELSE s1

\* reset_user_stats with the daily reset clearing file_count as well
reset_user_stats_clears_hourly(stats, u, t) ==
    LET s1 == IF u \in DOMAIN stats THEN stats
              ELSE Put(stats, u, [file_count |-> 0, last_upload |-> <<>>,
                                  daily_count |-> 0, last_daily_reset |-> t])
    IN IF t - s1[u].last_daily_reset > Day
       THEN [s1 EXCEPT ![u].daily_count = 0, ![u].last_daily_reset = t,
                       ![u].file_count = 0]
       ELSE s1

\* reset_user_stats: create the record lazily, reset a stale daily counter
reset_user_stats(stats, u, t) ==
    LET s1 == IF u \in DOMAIN stats THEN stats
              ELSE Put(stats, u, [file_count |-> 0, last_upload |-> <<>>,
                                  daily_count |-> 0, last_daily_reset |-> t])
    IN IF t - s1[u].last_daily_reset > Day
       THEN [s1 EXCEPT ![u].daily_count = 0, ![u].last_daily_reset = t]
       ELSE s1

\* check_limits with the hourly cap compared by > instead of >=
check_limits_lenient(stats, u, t) ==
    IF u \notin DOMAIN stats THEN TRUE
    ELSE IF /\ stats[u].last_upload # <<>>
            /\ t - stats[u].last_upload[1] < Hour
            /\ stats[u].file_count > MAX_FILES_PER_HOUR
         THEN FALSE
    ELSE IF stats[u].daily_count >= MAX_FILES_PER_DAY THEN FALSE
    ELSE TRUE

\* check_limits: last_upload is <<>> for None, <<t>> otherwise
check_limits(stats, u, t) ==
    IF u \notin DOMAIN stats THEN TRUE
    ELSE IF /\ stats[u].last_upload # <<>>
            /\ t - stats[u].last_upload[1] < Hour
            /\ stats[u].file_count >= MAX_FILES_PER_HOUR
         THEN FALSE
    ELSE IF stats[u].daily_count >= MAX_FILES_PER_DAY THEN FALSE
    ELSE TRUE

\* whether reset_user_stats set last_daily_reset in this call
AnchorSet(stats, u, t) ==
    \/ u \notin DOMAIN stats
    \/ t - stats[u].last_daily_reset > Day

Lower(ext) == IF ext = "PPTX" THEN "pptx" ELSE ext

AchievableMax(pages) ==
    Min(MAX_QUESTIONS_PER_FILE, Max(MIN_QUESTIONS, pages * 2))

\* the text messages a user sends: a number around the valid range, or
\* something int() rejects
TextInputs ==
    {[numeric |-> FALSE, value |-> 0]}
        \cup {[numeric |-> TRUE, value |-> n] :
                 n \in (MIN_QUESTIONS - 1)..(AchievableMax(MaxPages) + 1)}

\* ---- question generator ----
\* One run of the loop of generate_questions: per attempt, whether the
\* pipeline returned a result and the slot random.randint drew.  The runs
\* enumerated have their failed attempts last and draw the same slot in
\* every attempt; a list of every length from 0 to n is the yield of one.
PipelineRuns(n) ==
    {[i \in 1..n |-> IF i <= k THEN [ok |-> TRUE, slot |-> s]
                               ELSE [ok |-> FALSE, slot |-> s]] :
        k \in 0..n, s \in Slots}

RECURSIVE generate_questions(_)
generate_questions(run) ==
    IF run = <<>> THEN <<>>
    ELSE LET rest == generate_questions(SubSeq(run, 1, Len(run) - 1))
             last == run[Len(run)]
         IN IF last.ok THEN Append(rest, [correct_idx |-> last.slot])
            ELSE rest

\* the last MAX_FILES_PER_HOUR + 1 entries of a sequence with t appended
Remember(s, t) ==
    LET a == Append(s, t)
    IN IF Len(a) > MAX_FILES_PER_HOUR + 1 THEN Tail(a) ELSE a

\* ---- scorer ----
\* round(correct/total*100, 1), in tenths of a percent, ties to even
Accuracy10(correct, total) ==
    LET q == (1000 * correct) \div total
        r == (1000 * correct) % total
    IN IF 2 * r < total THEN q
       ELSE IF 2 * r > total THEN q + 1
       ELSE IF q % 2 = 0 THEN q ELSE q + 1

\* show_results: the state it leaves, the fault it raises, the report sent
show_results(ud) ==
    IF ~Has(ud, "total_questions") \/ ~Has(ud, "user_answers")
    THEN [ud |-> ud, fault |-> "KeyError", total |-> <<>>, report |-> <<>>]
    ELSE
    LET total == ud["total_questions"]
        answers == ud["user_answers"]
        questions == ud["current_questions"]
        correct == Cardinality({i \in 1..Len(answers) :
                      answers[i].selected =
                        questions[answers[i].question_idx + 1].correct_idx})
    IN IF \E i \in 1..Len(answers) : answers[i].question_idx >= Len(questions)
       THEN [ud |-> ud, fault |-> "IndexError", total |-> <<total>>,
             report |-> <<>>]
       ELSE IF total = 0
       THEN [ud |-> ud, fault |-> "ZeroDivisionError", total |-> <<total>>,
             report |-> <<>>]
       ELSE [ud |-> EmptyDict, fault |-> "none", total |-> <<total>>,
             report |-> <<[correct |-> correct, total |-> total,
                           accuracy10 |-> Accuracy10(correct, total),
                           answers |-> Len(answers)]>>]

\* the indices questions[start_idx:end_idx] selects (0-based)
Slice(len, start_idx, end_idx) ==
    [i \in 1..Max(0, Min(end_idx, len) - start_idx) |-> start_idx + i - 1]

\* the test of line 238 with <= instead of <
has_more_inclusive(end_idx, len) == end_idx <= len

\* whether questions remain after the batch that ends before end_idx
has_more(end_idx, len) == end_idx < len

\* send_question_batch: the state it leaves, the fault it raises, the
\* indices of the polls sent, whether the "more" button was sent, the value
\* written to current_index, len(questions), and show_results' total and
\* report when it was called
send_question_batch(ud) ==
    IF ~Has(ud, "current_questions") \/ ~Has(ud, "current_index")
    THEN [ud |-> ud, fault |-> "KeyError", batch |-> <<>>, more |-> FALSE,
          cursor |-> <<>>, qlen |-> 0, total |-> <<>>, report |-> <<>>]
    ELSE
    LET questions == ud["current_questions"]
        start_idx == ud["current_index"]
        end_idx == start_idx + QUESTIONS_PER_BATCH
        batch == Slice(Len(questions), start_idx, end_idx)
        ud1 == Put(ud, "current_index", end_idx)
    IN IF has_more(end_idx, Len(questions))
       THEN [ud |-> ud1, fault |-> "none", batch |-> batch, more |-> TRUE,
             cursor |-> <<end_idx>>, qlen |-> Len(questions),
             total |-> <<>>, report |-> <<>>]
       ELSE LET r == show_results(ud1)
            IN [ud |-> r.ud, fault |-> r.fault, batch |-> batch,
                more |-> FALSE, cursor |-> <<end_idx>>,
                qlen |-> Len(questions), total |-> r.total,
                report |-> r.report]

\* what a handler that ran send_question_batch reports of it
Sent(o, r) ==
    [o EXCEPT !.fault = r.fault, !.batch = r.batch, !.more = r.more,
              !.cursor = r.cursor, !.qlen = r.qlen, !.total = r.total,
              !.report = r.report,
              !.reply = IF r.report # <<>> THEN "report"
                        ELSE IF r.more THEN "more" ELSE "none"]

Init ==
    /\ now = 0
    /\ ticks = 0
    /\ user_stats = EmptyDict
    /\ user_data = [u \in Users |-> EmptyDict]
    /\ out = NoOut
    /\ emitted = [u \in Users |-> <<>>]
    /\ accepted = [u \in Users |-> <<>>]
    /\ sinceAnchor = [u \in Users |-> 0]
    /\ finalized = [u \in Users |-> FALSE]

\* time passes between two updates
Elapse ==
    /\ ticks < MaxTicks
    /\ \E d \in {1, Hour, Day + 1} : now' = now + d
    /\ ticks' = ticks + 1
    /\ out' = NoOut
    /\ UNCHANGED <<user_stats, user_data, emitted, accepted, sinceAnchor,
                   finalized>>

\* /start
Start(u) ==
    /\ user_stats' = reset_user_stats(user_stats, u, now)
    /\ sinceAnchor' = [sinceAnchor EXCEPT
                         ![u] = IF AnchorSet(user_stats, u, now) THEN 0 ELSE @]
    /\ out' = [NoOut EXCEPT !.h = "start", !.u = u, !.reply = "welcome"]
    /\ UNCHANGED <<now, ticks, user_data, emitted, accepted, finalized>>

\* the extraction test without "if not text_content"
text_content_ok_unchecked(ex) == ex.kind # "raises"

\* whether the try block of handle_document gets a text to work on:
\* extract_text_from_file returned, and what it returned is not empty
text_content_ok(ex) == ex.kind = "text"

\* a document arrives
HandleDocument(u) ==
    \E ext \in Extensions, ex \in Extractions :
      LET stats1 == reset_user_stats(user_stats, u, now)
          since0 == IF AnchorSet(user_stats, u, now) THEN 0 ELSE sinceAnchor[u]
          file_type == Lower(ext)
          o == [NoOut EXCEPT !.h = "handle_document", !.u = u, !.ext = ext]
      IN
      IF ~check_limits(stats1, u, now) THEN
          /\ user_stats' = stats1
          /\ sinceAnchor' = [sinceAnchor EXCEPT ![u] = since0]
          /\ out' = [o EXCEPT !.reply = "quota_exceeded"]
          /\ UNCHANGED <<now, ticks, user_data, emitted, accepted, finalized>>
      ELSE IF file_type \notin {"pdf", "ppt", "pptx"} THEN
          /\ user_stats' = stats1
          /\ sinceAnchor' = [sinceAnchor EXCEPT ![u] = since0]
          /\ out' = [o EXCEPT !.reply = "unsupported_type"]
          /\ UNCHANGED <<now, ticks, user_data, emitted, accepted, finalized>>
      ELSE
          /\ user_stats' = [stats1 EXCEPT ![u].file_count = @ + 1,
                                          ![u].last_upload = <<now>>]
          /\ sinceAnchor' = [sinceAnchor EXCEPT ![u] = since0 + 1]
          /\ accepted' = [accepted EXCEPT ![u] = Remember(@, now)]
          /\ IF ~text_content_ok(ex) THEN
                 \* caught by "except Exception" at line 175
                 /\ out' = [o EXCEPT !.reply = "processing_failed",
                                     !.extraction = ex.kind]
                 /\ UNCHANGED <<user_data, emitted, finalized>>
             ELSE
                 LET num_pages == ex.pages
                     max_questions == AchievableMax(num_pages)
                     ud == user_data[u]
                     ud1 == Put(ud, "file_text", [pages |-> num_pages])
                     ud2 == Put(ud1, "max_questions", max_questions)
                     ud3 == Put(ud2, "current_questions", <<>>)
                     ud4 == Put(ud3, "user_answers", <<>>)
                     ud5 == Put(ud4, "score", 0)
                 IN /\ user_data' = [user_data EXCEPT ![u] = ud5]
                    /\ emitted' = [emitted EXCEPT ![u] = <<>>]
                    /\ finalized' = [finalized EXCEPT ![u] = FALSE]
                    /\ out' = [o EXCEPT !.reply = "choose_count",
                                        !.extraction = ex.kind]
          /\ UNCHANGED <<now, ticks>>

\* the range check without its lower bound
count_in_range_no_min(num_questions, max_questions) ==
    num_questions <= max_questions

\* the range check of handle_question_count
count_in_range(num_questions, max_questions) ==
    MIN_QUESTIONS <= num_questions /\ num_questions <= max_questions

\* a text message arrives
HandleQuestionCount(u) ==
    \E text \in TextInputs :
      LET ud == user_data[u]
          o == [NoOut EXCEPT !.h = "handle_question_count", !.u = u,
                             !.text = text]
          num_questions == text.value
          max_questions == Get(ud, "max_questions", MIN_QUESTIONS)
      IN
      IF ~text.numeric THEN
          \* int() raises ValueError, caught at line 211
          /\ out' = [o EXCEPT !.reply = "not_a_number"]
          /\ UNCHANGED <<now, ticks, user_stats, user_data, emitted, accepted,
                         sinceAnchor, finalized>>
      ELSE IF ~count_in_range(num_questions, max_questions) THEN
          /\ out' = [o EXCEPT !.reply = "invalid_count"]
          /\ UNCHANGED <<now, ticks, user_stats, user_data, emitted, accepted,
                         sinceAnchor, finalized>>
      ELSE IF ~Has(ud, "file_text") THEN
          /\ out' = [o EXCEPT !.fault = "KeyError"]
          /\ UNCHANGED <<now, ticks, user_stats, user_data, emitted, accepted,
                         sinceAnchor, finalized>>
      ELSE
          \/ \* the pipeline raises: nothing was stored yet
             /\ out' = [o EXCEPT !.reply = "generating", !.generating = TRUE,
                                 !.fault = "ModelError"]
             /\ UNCHANGED <<now, ticks, user_stats, user_data, emitted,
                            accepted, sinceAnchor, finalized>>
          \/ \E run \in PipelineRuns(num_questions) :
               LET questions == generate_questions(run)
                   ud1 == Put(ud, "total_questions", Len(questions))
                   ud2 == Put(ud1, "current_questions", questions)
                   ud3 == Put(ud2, "current_index", 0)
                   r == send_question_batch(ud3)
               IN /\ user_data' = [user_data EXCEPT ![u] = r.ud]
                  /\ emitted' = [emitted EXCEPT ![u] = r.batch]
                  /\ finalized' = [finalized EXCEPT
                                     ![u] = IF r.report # <<>> THEN TRUE ELSE @]
                  /\ out' = Sent([o EXCEPT !.generating = TRUE], r)
                  /\ UNCHANGED <<now, ticks, user_stats, accepted, sinceAnchor>>

\* the "more" button is clicked
NextBatch(u) ==
    LET ud == user_data[u]
        r == send_question_batch(ud)
    IN /\ Has(ud, "current_index") => ud["current_index"] <= MaxIndex
       /\ user_data' = [user_data EXCEPT ![u] = r.ud]
       /\ emitted' = [emitted EXCEPT ![u] = @ \o r.batch]
       /\ finalized' = [finalized EXCEPT
                          ![u] = IF r.report # <<>> THEN TRUE ELSE @]
       /\ out' = Sent([NoOut EXCEPT !.h = "next_batch", !.u = u], r)
       /\ UNCHANGED <<now, ticks, user_stats, accepted, sinceAnchor>>

\* the append of handle_poll_answer numbering the answers from 1
record_answer_from_one(answers, selected) ==
    Append(answers, [question_idx |-> Len(answers) + 1, selected |-> selected])

\* the append of handle_poll_answer
record_answer(answers, selected) ==
    Append(answers, [question_idx |-> Len(answers), selected |-> selected])

\* a poll is answered
HandlePollAnswer(u) ==
    \E selected \in Slots :
      LET ud == user_data[u]
          ud1 == IF Has(ud, "user_answers") THEN ud
                 ELSE Put(ud, "user_answers", <<>>)
          answers == ud1["user_answers"]
      IN /\ Len(answers) < MaxAnswers
         /\ user_data' = [user_data EXCEPT
               ![u] = Put(ud1, "user_answers",
                          record_answer(answers, selected))]
         /\ out' = [NoOut EXCEPT !.h = "handle_poll_answer", !.u = u]
         /\ UNCHANGED <<now, ticks, user_stats, emitted, accepted,
                        sinceAnchor, finalized>>

\* every update the dispatcher of main() routes to a handler, all within
\* one tick of the clock
Next ==
    \/ \E u \in Users : Start(u)
    \/ \E u \in Users : HandleDocument(u)
    \/ \E u \in Users : HandleQuestionCount(u)
    \/ \E u \in Users : NextBatch(u)
    \/ \E u \in Users : HandlePollAnswer(u)

Spec == Init /\ [][Next]_vars

\* the usage tracker alone: /start and uploads over a longer time
NextQuota ==
    \/ Elapse
    \/ \E u \in Users : Start(u)
    \/ \E u \in Users : HandleDocument(u)

SpecQuota == Init /\ [][NextQuota]_vars

\* a day or so passes between two updates
ElapseDay ==
    /\ ticks < MaxTicks
    /\ \E d \in {Day - 1, Day, Day + 1} : now' = now + d
    /\ ticks' = ticks + 1
    /\ out' = NoOut
    /\ UNCHANGED <<user_stats, user_data, emitted, accepted, sinceAnchor,
                   finalized>>

\* the usage tracker around the 24-hour boundary of the daily reset
NextDaily ==
    \/ ElapseDay
    \/ \E u \in Users : Start(u)
    \/ \E u \in Users : HandleDocument(u)

SpecDaily == Init /\ [][NextDaily]_vars

\* ---- claims ----

\* C1 (daily quota gate): a user never has more than MAX_FILES_PER_DAY
\* uploads accepted since last_daily_reset was last set.
C1_DailyQuotaGate ==
    \A u \in Users : sinceAnchor[u] <= MAX_FILES_PER_DAY

\* the accepted uploads of u that are less than an hour old
Recent(u) == {i \in 1..Len(accepted[u]) : now - accepted[u][i] < Hour}

\* C2 (hourly quota gate): at every instant at most MAX_FILES_PER_HOUR
\* accepted uploads of a user are less than an hour old, and an upload that
\* got past check_limits (accepted, or refused for its file type only) was
\* not attempted while MAX_FILES_PER_HOUR uploads were that recent.
C2_HourlyQuotaGate ==
    \A u \in Users :
      /\ Cardinality(Recent(u)) <= MAX_FILES_PER_HOUR
      /\ (out.h = "handle_document" /\ out.u = u
            /\ out.reply = "unsupported_type")
           => Cardinality(Recent(u)) < MAX_FILES_PER_HOUR

\* C2 witness: an upload was refused by the hourly gate while two accepted
\* uploads were less than an hour old.
C2_Witness ==
    /\ out.h = "handle_document"
    /\ out.reply = "quota_exceeded"
    /\ Cardinality(Recent(out.u)) = MAX_FILES_PER_HOUR

\* C3 (cursor invariant): the cursor of a session is between 0 and the
\* number of generated questions, in the stored state and at the moment
\* send_question_batch writes it.
C3_CursorInvariant ==
    /\ \A u \in Users :
         (Has(user_data[u], "current_index")
            /\ Has(user_data[u], "total_questions"))
           => /\ 0 <= user_data[u]["current_index"]
              /\ user_data[u]["current_index"]
                   <= user_data[u]["total_questions"]
    /\ out.cursor # <<>> => out.cursor[1] <= out.qlen

\* C4 (batch pagination): the polls sent since the question list was stored
\* are questions 0, 1, 2, ... in that order, each once; a batch has at most
\* QUESTIONS_PER_BATCH of them and is the slice at the cursor; "more" is
\* offered exactly when questions remain unsent.
C4_BatchPagination ==
    \A u \in Users :
      LET e == emitted[u]
      IN /\ \A i \in 1..Len(e) : e[i] = i - 1
         /\ (out.u = u /\ out.cursor # <<>>) =>
              /\ Len(out.batch) <= QUESTIONS_PER_BATCH
              /\ Len(out.batch) <= Len(e)
              /\ out.batch = SubSeq(e, Len(e) - Len(out.batch) + 1, Len(e))
              /\ Len(e) <= out.qlen
              /\ out.more <=> (Len(e) < out.qlen)

\* C4 witness: the second batch of a six-question session was sent; it holds
\* question 5 alone and no "more" is offered.
C4_Witness ==
    /\ out.h = "next_batch"
    /\ out.batch = <<QUESTIONS_PER_BATCH>>
    /\ ~out.more
    /\ Len(emitted[out.u]) = QUESTIONS_PER_BATCH + 1

\* C5 (finalize with total 0): when show_results runs on a session whose
\* total is 0 it raises nothing, reports accuracy 0 and clears the session.
C5_FinalizeZeroTotal ==
    (out.total = <<0>>) =>
      /\ out.fault = "none"
      /\ out.report # <<>>
      /\ out.report[1].accuracy10 = 0
      /\ user_data[out.u] = EmptyDict

\* C6 (answers precede scoring): the report is computed in a step of its
\* own, after the questions of the last batch were sent in an earlier step
\* (so that their answers can have been recorded), and its total is the
\* number of questions.
C6_AnswersPrecedeScoring ==
    out.report # <<>> =>
      /\ out.batch = <<>>
      /\ out.report[1].total = out.qlen

\* nothing of a session is stored in a user's dictionary
NoSessionLeft(ud) ==
    /\ ~Has(ud, "current_index")
    /\ ~Has(ud, "total_questions")
    /\ Has(ud, "current_questions") => ud["current_questions"] = <<>>
    /\ Has(ud, "user_answers") => ud["user_answers"] = <<>>

\* a document is pending: uploaded, and no question list stored since
Pending(ud) ==
    /\ Has(ud, "file_text")
    /\ Has(ud, "max_questions")
    /\ ud["current_questions"] = <<>>

\* C7 (upload supersedes session): a successfully processed upload leaves
\* nothing of the previous session, and a "more" click or an answer that
\* arrives while the new document is pending sends no poll, produces no
\* report and keeps the pending file_text and max_questions.
C7_UploadSupersedes ==
    [][\A u \in Users :
         /\ (out'.h = "handle_document" /\ out'.u = u
               /\ out'.reply = "choose_count")
              => NoSessionLeft(user_data'[u])
         /\ (Pending(user_data[u]) /\ out'.u = u
               /\ out'.h \in {"next_batch", "handle_poll_answer"})
              => /\ out'.batch = <<>>
                 /\ out'.report = <<>>
                 /\ Has(user_data'[u], "file_text")
                 /\ Has(user_data'[u], "max_questions")
                 /\ user_data'[u]["file_text"] = user_data[u]["file_text"]
                 /\ user_data'[u]["max_questions"]
                      = user_data[u]["max_questions"]]_vars

\* C8 (finalize clears the session): from show_results' completion until
\* the user's next processed upload the user's dictionary is empty.
C8_FinalizeClears ==
    \A u \in Users : finalized[u] => user_data[u] = EmptyDict

\* C9 (no active session): a "more" click or an answer of a user whose
\* dictionary is empty changes nothing and raises nothing.
C9_NoActiveSession ==
    [][\A u \in Users :
         (user_data[u] = EmptyDict /\ out'.u = u
            /\ out'.h \in {"next_batch", "handle_poll_answer"})
           => /\ user_data'[u] = EmptyDict
              /\ out'.fault = "none"]_vars

\* the range of valid counts for a pending document of that many pages
ValidCount(n, pages) ==
    /\ MIN_QUESTIONS <= n
    /\ n <= Min(MAX_QUESTIONS_PER_FILE, Max(MIN_QUESTIONS, 2 * pages))

\* C10 (question-count validation): a text message starts generation only
\* if it is a number in [MIN_QUESTIONS, achievableMax] of the pending
\* document; a number outside that range is answered with the
\* invalid-count notice, raises nothing, sends nothing and leaves the
\* user's dictionary as it was.
C10_CountValidation ==
    [][\A u \in Users :
         (out'.h = "handle_question_count" /\ out'.u = u) =>
           LET ud == user_data[u]
               n == out'.text.value
           IN /\ out'.generating =>
                   /\ out'.text.numeric
                   /\ Has(ud, "file_text")
                   /\ ValidCount(n, ud["file_text"].pages)
              /\ (out'.text.numeric
                    /\ \/ n < MIN_QUESTIONS
                       \/ /\ Has(ud, "file_text")
                          /\ ~ValidCount(n, ud["file_text"].pages))
                   => /\ out'.reply = "invalid_count"
                      /\ out'.fault = "none"
                      /\ ~out'.generating
                      /\ out'.batch = <<>>
                      /\ user_data'[u] = ud]_vars

\* C10 witness: a count of MIN_QUESTIONS - 1 was refused while a document
\* is pending, and the document is still pending.
C10_Witness ==
    /\ out.h = "handle_question_count"
    /\ out.reply = "invalid_count"
    /\ out.text.value = MIN_QUESTIONS - 1
    /\ Has(user_data[out.u], "file_text")
    /\ Pending(user_data[out.u])

\* file_count and last_upload of u as a handler finds them; a user without
\* a record gets the fresh one first
CountOf(stats, u) == IF u \in DOMAIN stats THEN stats[u].file_count ELSE 0
LastUploadOf(stats, u) ==
    IF u \in DOMAIN stats THEN stats[u].last_upload ELSE <<>>

\* C11 (rejected uploads leave state unchanged): an upload refused by the
\* quota gate or for its file type leaves file_count, last_upload and the
\* user's dictionary as they were, and touches no other user's record.
C11_RejectedUploadNoChange ==
    [][\A u \in Users :
         (out'.h = "handle_document" /\ out'.u = u
            /\ out'.reply \in {"quota_exceeded", "unsupported_type"})
           => /\ user_data' = user_data
              /\ user_stats'[u].file_count = CountOf(user_stats, u)
              /\ user_stats'[u].last_upload = LastUploadOf(user_stats, u)
              /\ DOMAIN user_stats' = DOMAIN user_stats \cup {u}
              /\ \A v \in DOMAIN user_stats \ {u} :
                   user_stats'[v] = user_stats[v]]_vars

\* C11 witness: a docx was refused after one upload had been counted and
\* while its document is pending.
C11_Witness ==
    /\ out.h = "handle_document"
    /\ out.ext = "docx"
    /\ out.reply = "unsupported_type"
    /\ user_stats[out.u].file_count = 1
    /\ Has(user_data[out.u], "file_text")

\* C12 (extraction failed): when the extractor raises or returns an empty
\* text for an admitted upload, the upload is counted (file_count + 1,
\* last_upload = now), the user gets the failure notice, nothing is raised
\* and the user's dictionary is left as it was.
C12_ExtractionFailed ==
    [][\A u \in Users :
         (out'.h = "handle_document" /\ out'.u = u
            /\ out'.extraction \in {"raises", "empty"})
           => /\ out'.reply = "processing_failed"
              /\ out'.fault = "none"
              /\ user_stats'[u].file_count = CountOf(user_stats, u) + 1
              /\ user_stats'[u].last_upload = <<now>>
              /\ user_data' = user_data]_vars

\* C12 witness: the first upload of a user yielded an empty text; it was
\* counted and nothing is pending.
C12_Witness ==
    /\ out.h = "handle_document"
    /\ out.extraction = "empty"
    /\ out.reply = "processing_failed"
    /\ user_stats[out.u].file_count = 1
    /\ user_data[out.u] = EmptyDict

\* C13 (generation failed): when generation returns no question, nothing of
\* a session is stored, no report is produced, nothing is raised and the
\* user is told that generation failed.
C13_GenerationFailed ==
    (out.h = "handle_question_count" /\ out.cursor # <<>> /\ out.qlen = 0)
      => /\ out.reply = "generation_failed"
         /\ out.fault = "none"
         /\ out.report = <<>>
         /\ ~Has(user_data[out.u], "current_index")
         /\ ~Has(user_data[out.u], "total_questions")

\* C14 (partial generation): generation, once started, always returns to
\* its caller, with at most as many questions as were asked for, and the
\* session's total is their number.
C14_PartialGeneration ==
    (out.h = "handle_question_count" /\ out.generating)
      => /\ out.fault # "ModelError"
         /\ out.cursor # <<>>
         /\ out.qlen <= out.text.value
         /\ out.total # <<>> => out.total[1] = out.qlen

\* C15 (fresh session on start): when a question list is stored for a
\* count, the user's answer list is empty and the first batch starts at
\* question 0.
C15_FreshSession ==
    [][\A u \in Users :
         (out'.h = "handle_question_count" /\ out'.u = u
            /\ out'.cursor # <<>>)
           => /\ user_data[u]["user_answers"] = <<>>
              /\ out'.batch # <<>> => out'.batch[1] = 0]_vars

\* C16 (arrival-order attribution): every stored answer list numbers its
\* entries 0, 1, 2, ..., and handle_poll_answer appends exactly one entry,
\* numbered with the length the list had, leaving the others as they were.
C16_ArrivalOrder ==
    [][\A u \in Users :
         /\ Has(user_data'[u], "user_answers") =>
              \A i \in 1..Len(user_data'[u]["user_answers"]) :
                user_data'[u]["user_answers"][i].question_idx = i - 1
         /\ (out'.h = "handle_poll_answer" /\ out'.u = u) =>
              LET old == Get(user_data[u], "user_answers", <<>>)
                  new == user_data'[u]["user_answers"]
              IN /\ Len(new) = Len(old) + 1
                 /\ SubSeq(new, 1, Len(old)) = old
                 /\ new[Len(new)].question_idx = Len(old)]_vars

\* C16 witness: a second answer was recorded.
C16_Witness ==
    /\ out.h = "handle_poll_answer"
    /\ Has(user_data[out.u], "user_answers")
    /\ Len(user_data[out.u]["user_answers"]) = 2

\* whether a handler's reply says the upload was counted
Counted(o, u) ==
    /\ o.h = "handle_document"
    /\ o.u = u
    /\ o.reply \in {"choose_count", "processing_failed"}

\* C17 (daily reset boundary): /start or an upload of a user with a record
\* sets daily_count to 0 and last_daily_reset to now if more than 24 hours
\* have passed since last_daily_reset, and leaves both otherwise (at 24
\* hours exactly too); file_count and last_upload change only when the
\* upload is counted.
C17_DailyResetBoundary ==
    [][\A u \in Users :
         (out'.h \in {"start", "handle_document"} /\ out'.u = u
            /\ u \in DOMAIN user_stats)
           => LET old == user_stats[u]
                  new == user_stats'[u]
                  stale == now - old.last_daily_reset > 24 * Hour
              IN /\ stale => /\ new.daily_count = 0
                             /\ new.last_daily_reset = now
                 /\ ~stale => /\ new.daily_count = old.daily_count
                              /\ new.last_daily_reset = old.last_daily_reset
                 /\ ~Counted(out', u) =>
                      /\ new.file_count = old.file_count
                      /\ new.last_upload = old.last_upload]_vars

\* C17 witness: /start exactly 24 hours after the record was created at
\* time 0 with an upload; the anchor is still 0.
C17_Witness ==
    /\ out.h = "start"
    /\ now = 24 * Hour
    /\ user_stats[out.u].last_daily_reset = 0
    /\ user_stats[out.u].last_upload = <<0>>

\* C18 (finalize exactly when exhausted): the step that sends the last
\* question of a session produces the report and clears the session, and a
\* report is produced only when every question was sent.
C18_FinalizeWhenExhausted ==
    /\ (out.cursor # <<>> /\ ~out.more /\ out.qlen >= 1)
         => /\ out.report # <<>>
            /\ out.report[1].total = out.qlen
            /\ user_data[out.u] = EmptyDict
    /\ (out.report # <<>> /\ out.qlen >= 1)
         => Len(emitted[out.u]) = out.qlen

C20_ScoringInRange ==
    out.total # <<>> =>
      /\ out.fault # "IndexError"
      /\ out.total[1] = out.qlen
      /\ out.report # <<>> =>
           /\ 0 <= out.report[1].correct
           /\ out.report[1].correct <= out.report[1].total

====
